---- MODULE Spec2Model ----
(***************************************************************************)
(* Model of the two-party conversation driver of week1/convo_app.py        *)
(* (class ModelConversation).  Strings are TLA+ strings; Len, \o and       *)
(* SubSeq act on them character by character.                              *)
(***************************************************************************)
EXTENDS Integers, Sequences, FiniteSets, TLC

(* ------------------------------ bounds --------------------------------- *)
MaxTurns == 4
MaxChars == 3
MaxLen == 4

(* ------------------------------ inputs --------------------------------- *)
\* The text a completion call may return: every prefix of Sample, and one
\* text of a quote, a backslash and a newline.
Sample == "abcdefghij"
Texts == {SubSeq(Sample, 1, n) : n \in 0..MaxLen} \cup {"\"\\\n"}

\* str(e) of the exception a failed completion call raises.
Errors == {"timeout"}

\* max_chars is any int the caller passes; -1 and 0 stand for the
\* non-positive ones.
CharLimits == -1..MaxChars

InitialPrompts == {"Let's debate this topic: x.", ""}

\* (client, model_name, system_prompt, character_name)
FirstParticipants == {<<"client1", "gpt", "You are p", "A">>}
SecondParticipants ==
    { <<"client2", "llama", "You are q", "B">>,
      <<"client2", "gpt", "You are p", "A">>,
      <<"client1", "llama", "You are q", "Moderator">> }

VARIABLES model1, model2, initial_prompt, turns, max_chars,
          conversation_history, pc, turn, calls, stdout, result

\* Number of earlier run_conversation invocations on the same driver object.
VARIABLES invocations

\* The exception class run_conversation lets through to its caller ("" for
\* none): the except clause of line 79 catches every Exception.
VARIABLES propagated

\* main() of convo_app.py: the topic typed in, the files of output/ (name to
\* content), the path written, and the debate_log read back from it.
VARIABLES debate_topic, output_dir, output_file, loaded

mainVars == <<debate_topic, output_dir, output_file, loaded>>

\* OllamaClient.get_completion: the position in the call, the models the
\* server holds, the HTTP requests sent, the arguments of the call in
\* progress, how the call ended, and the number of calls made.
VARIABLES ollama_pc, local_models, http, request, completion, ncalls

ollamaVars == <<ollama_pc, local_models, http, request, completion, ncalls>>

\* Construction of a provider client: the class chosen, the api_key
\* argument, the key in the environment, the state of the backend, the
\* object constructed and the exception class the constructor raised.
VARIABLES provider, key_arg, key_env, backend, client, ctor_error

clientVars == <<provider, key_arg, key_env, backend, client, ctor_error>>

\* company_brochure of app.py: the position in the function, the url
\* argument, main_site.links, the loop index, additional_content, the
\* Website fetches attempted, the get_completion calls made, the print
\* output, the files written and how the call ended.
VARIABLES b_pc, url, links, link_i, additional_content, fetches, b_calls,
          b_stdout, b_files, b_result

brochureVars == <<b_pc, url, links, link_i, additional_content, fetches,
                  b_calls, b_stdout, b_files, b_result>>

config == <<model1, model2, initial_prompt, turns, max_chars>>

\* The state outside one run of the conversation driver.
otherVars == <<invocations, propagated, mainVars, ollamaVars, clientVars,
               brochureVars>>

vars == <<model1, model2, initial_prompt, turns, max_chars,
          conversation_history, pc, turn, calls, stdout, result, otherVars>>

(* --------------------------- pure helpers ------------------------------ *)
\* company_brochure is not running.
BrochureIdle ==
    /\ b_pc = "idle"
    /\ url = ""
    /\ links = <<>>
    /\ link_i = 0
    /\ additional_content = <<>>
    /\ fetches = <<>>
    /\ b_calls = <<>>
    /\ b_stdout = <<>>
    /\ b_files = [f \in {} |-> ""]
    /\ b_result = [kind |-> "none", class |-> "", value |-> ""]

\* Python's None where a str is expected.
None == "<None>"

NoClient == [provider |-> "", api_key |-> ""]

\* No provider client under construction.
ClientIdle ==
    /\ provider = ""
    /\ key_arg = None
    /\ key_env = None
    /\ backend = "up"
    /\ client = NoClient
    /\ ctor_error = ""

NoCompletion == [kind |-> "none", class |-> "", value |-> ""]

NoRequest == [system_prompt |-> "", user_prompt |-> "", model |-> ""]

\* No Ollama client in use.
OllamaIdle ==
    /\ ollama_pc = "idle"
    /\ local_models = {}
    /\ http = <<>>
    /\ request = NoRequest
    /\ completion = NoCompletion
    /\ ncalls = 0

NoFiles == [f \in {} |-> ""]

\* No main() around the driver.
MainIdle ==
    /\ debate_topic = ""
    /\ output_dir = NoFiles
    /\ output_file = ""
    /\ loaded = <<>>

\* str(n) for an int n, as an f-string renders it.
Digit(d) ==
    CASE d = 0 -> "0" [] d = 1 -> "1" [] d = 2 -> "2" [] d = 3 -> "3"
      [] d = 4 -> "4" [] d = 5 -> "5" [] d = 6 -> "6" [] d = 7 -> "7"
      [] d = 8 -> "8" [] d = 9 -> "9"

RECURSIVE NatToStr(_)
NatToStr(n) == IF n < 10 THEN Digit(n) ELSE NatToStr(n \div 10) \o Digit(n % 10)

IntToStr(n) == IF n < 0 THEN "-" \o NatToStr(0 - n) ELSE NatToStr(n)

\* Mutant: the slice keeps the whole string.
SliceTo_whole(s, n) == s

\* Python's s[:n]: the first n characters, or all but the last -n when n < 0.
SliceTo(s, n) ==
    LET stop == IF n < 0 THEN (IF Len(s) + n < 0 THEN 0 ELSE Len(s) + n)
                ELSE (IF n > Len(s) THEN Len(s) ELSE n)
    IN SubSeq(s, 1, stop)

Marker == "..."

\* Mutant: the comparison of line 67 written as >=.
Truncate_geq(response, limit) ==
    IF Len(response) >= limit THEN SliceTo(response, limit) \o Marker
    ELSE response

\* convo_app.py:67-68
Truncate(response, limit) ==
    IF Len(response) > limit THEN SliceTo(response, limit) \o Marker
    ELSE response

Entry(name, message) == [speaker |-> name, message |-> message]

\* Mutant: the seed is recorded under the opening participant's name.
SeedEntry_asOpener == Entry(model1[4], initial_prompt)

\* convo_app.py:39-42, the seed entry.
SeedEntry == Entry("Moderator", initial_prompt)

\* Mutant: list.insert(0, ...) in place of list.append.
Record_prepend(history, entry) == <<entry>> \o history

\* list.append on the transcript (lines 39 and 71).
Record(history, entry) == Append(history, entry)

\* Mutant: range(self.turns + 1).
LoopContinues_offByOne(t) == t <= turns

\* range(self.turns) has a value left for the loop variable (line 46).
LoopContinues(t) == t < turns

\* convo_app.py:29-34, the loop run over the first n entries of history.
RECURSIVE FormatEntries(_, _)
FormatEntries(history, n) ==
    IF n = 0 THEN ""
    ELSE FormatEntries(history, n - 1)
            \o history[n].speaker \o ": " \o history[n].message \o "\n"

\* Mutant: only the latest entry is rendered (incremental context).
_format_conversation_history_lastOnly(history) ==
    IF Len(history) = 0 THEN ""
    ELSE history[Len(history)].speaker \o ": "
            \o history[Len(history)].message \o "\n"

_format_conversation_history(history) == FormatEntries(history, Len(history))

\* convo_app.py:53-56
UserPrompt(history, limit) ==
    "Here's the conversation so far:\n" \o _format_conversation_history(history)
        \o "\n" \o "Please provide your response. Keep it under "
        \o IntToStr(limit) \o " characters:"

\* Mutant: the parity test of line 48 inverted.
current_model_swapped(t) == IF t % 2 = 0 THEN model2 ELSE model1

\* convo_app.py:48
current_model(t) == IF t % 2 = 0 THEN model1 ELSE model2

\* convo_app.py:49
speaker(t) == current_model(t)[4]

\* Mutant: the call carries the other participant's system prompt.
Request_otherPersona(t, history) ==
    [turn |-> t,
     client |-> current_model(t)[1],
     system_prompt |-> current_model(t + 1)[3],
     user_prompt |-> UserPrompt(history, max_chars),
     model |-> current_model(t)[2],
     outcome |-> "pending",
     text |-> ""]

\* The get_completion call of turn t as the client receives it (lines 60-64);
\* outcome and text are filled in when the call returns or raises.
Request(t, history) ==
    [turn |-> t,
     client |-> current_model(t)[1],
     system_prompt |-> current_model(t)[3],
     user_prompt |-> UserPrompt(history, max_chars),
     model |-> current_model(t)[2],
     outcome |-> "pending",
     text |-> ""]

\* The last call of the log is answered.
Answered(log, outcome, text) ==
    [log EXCEPT ![Len(log)].outcome = outcome, ![Len(log)].text = text]

(* ------------------------------ actions -------------------------------- *)
\* ModelConversation.__init__
Init ==
    /\ model1 \in FirstParticipants
    /\ model2 \in SecondParticipants
    /\ initial_prompt \in InitialPrompts
    /\ turns \in 0..MaxTurns
    /\ max_chars \in CharLimits
    /\ conversation_history = <<>>
    /\ pc = "NotStarted"
    /\ turn = 0
    /\ calls = <<>>
    /\ stdout = <<>>
    /\ result = <<>>
    /\ invocations = 0
    /\ propagated = ""
    /\ MainIdle
    /\ OllamaIdle
    /\ ClientIdle
    /\ BrochureIdle

\* run_conversation is entered: the seed entry is appended (lines 39-43).
Start ==
    /\ pc = "NotStarted"
    /\ conversation_history' = Record(conversation_history, SeedEntry)
    /\ stdout' = Append(stdout, "\nModerator: " \o initial_prompt)
    /\ pc' = "Running"
    /\ turn' = 0
    /\ UNCHANGED <<otherVars, config, calls, result>>

\* Loop head with a turn left: the prompt is built and get_completion is
\* called on the current participant (lines 46-64).
IssueCall ==
    /\ pc = "Running"
    /\ LoopContinues(turn)
    /\ calls' = Append(calls, Request(turn, conversation_history))
    /\ pc' = "Awaiting"
    /\ UNCHANGED <<otherVars, config, conversation_history, turn, stdout, result>>

\* get_completion returns a text: truncate, append, print (lines 66-77).
CompletionReturns ==
    /\ pc = "Awaiting"
    /\ \E text \in Texts :
          LET response == Truncate(text, max_chars) IN
          /\ conversation_history' =
                Record(conversation_history, Entry(speaker(turn), response))
          /\ stdout' = Append(stdout, "\n" \o speaker(turn) \o ": " \o response)
          /\ calls' = Answered(calls, "returned", text)
    /\ turn' = turn + 1
    /\ pc' = "Running"
    /\ UNCHANGED <<otherVars, config, result>>

\* Mutant: the except branch also records the error as a transcript entry.
CompletionFails_recordsError ==
    /\ pc = "Awaiting"
    /\ \E e \in Errors :
          /\ stdout' = Append(stdout,
                "\nError getting response from " \o speaker(turn) \o ": " \o e)
          /\ calls' = Answered(calls, "raised", e)
          /\ conversation_history' =
                Record(conversation_history, Entry(speaker(turn), e))
    /\ pc' = "Aborted"
    /\ result' = conversation_history'
    /\ UNCHANGED <<otherVars, config, turn>>

\* Mutant: the except branch ends with continue in place of break.
CompletionFails_skip ==
    /\ pc = "Awaiting"
    /\ \E e \in Errors :
          /\ stdout' = Append(stdout,
                "\nError getting response from " \o speaker(turn) \o ": " \o e)
          /\ calls' = Answered(calls, "raised", e)
    /\ pc' = "Running"
    /\ turn' = turn + 1
    /\ UNCHANGED <<otherVars, config, conversation_history, result>>

\* Mutant: the except branch leaves the run as a normal completion does.
CompletionFails_asCompleted ==
    /\ pc = "Awaiting"
    /\ \E e \in Errors :
          /\ stdout' = Append(stdout,
                "\nError getting response from " \o speaker(turn) \o ": " \o e)
          /\ calls' = Answered(calls, "raised", e)
    /\ pc' = "Completed"
    /\ result' = conversation_history
    /\ UNCHANGED <<otherVars, config, conversation_history, turn>>

\* get_completion raises: report, break, return (lines 79-83).
CompletionFails ==
    /\ pc = "Awaiting"
    /\ \E e \in Errors :
          /\ stdout' = Append(stdout,
                "\nError getting response from " \o speaker(turn) \o ": " \o e)
          /\ calls' = Answered(calls, "raised", e)
    /\ pc' = "Aborted"
    /\ result' = conversation_history
    /\ UNCHANGED <<otherVars, config, conversation_history, turn>>

\* The loop is exhausted: return (lines 46, 83).
Finish ==
    /\ pc = "Running"
    /\ ~LoopContinues(turn)
    /\ pc' = "Completed"
    /\ result' = conversation_history
    /\ UNCHANGED <<otherVars, config, conversation_history, turn, calls, stdout>>

Next == Start \/ IssueCall \/ CompletionReturns \/ CompletionFails \/ Finish

Spec == Init /\ [][Next]_vars

\* Bounds of the re-invocation model: the turn count and the number of
\* further run_conversation calls on the same object.
ReuseTurns == 1
MaxInvocations == 1

\* run_conversation is called again on a driver whose earlier call has
\* returned: __init__ alone assigns the empty list (line 27), so the seed is
\* appended to the history the object still holds (lines 39-43).
Reinvoke ==
    /\ pc \in {"Completed", "Aborted"}
    /\ invocations < MaxInvocations
    /\ invocations' = invocations + 1
    /\ conversation_history' = Record(conversation_history, SeedEntry)
    /\ stdout' = Append(stdout, "\nModerator: " \o initial_prompt)
    /\ pc' = "Running"
    /\ turn' = 0
    /\ UNCHANGED <<propagated, mainVars, ollamaVars, clientVars, brochureVars,
                   config, calls, result>>

\* A fresh driver object with a short debate.
ReuseInit ==
    /\ Init
    /\ turns <= ReuseTurns
    /\ max_chars = MaxChars

ReuseNext == Next \/ Reinvoke

ReuseSpec == ReuseInit /\ [][ReuseNext]_vars

\* Every completion call either returns or raises, and the interpreter
\* keeps executing the single thread.
FairSpec == Spec /\ WF_vars(Next)

TypeOK ==
    /\ pc \in {"NotStarted", "Running", "Awaiting", "Completed", "Aborted",
              "Saved", "Reloaded"}
    /\ turn \in Nat
    /\ Len(calls) <= turn + 1

(* --------------------------- main(): persistence ----------------------- *)
\* A bound of the main() model.
MainTurns == 2

\* What the user types as the topic; input() returns no newline.
DebateTopics == {"x", "is \"a\\b\" c?"}

\* Files that may be in output/ before the run.
DirNames == {"debate_1.json", "debate_3.json", "notes.txt"}

\* Python values as json.dump sees them: str, int, list, dict (in insertion
\* order).
JStr(s) == [t |-> "str", v |-> s]
JInt(n) == [t |-> "int", v |-> n]
JArr(items) == [t |-> "arr", v |-> items]
JObj(members) == [t |-> "obj", v |-> members]

CharAt(s, i) == IF i >= 1 /\ i <= Len(s) THEN SubSeq(s, i, i) ELSE ""

EscapeChar(c) ==
    CASE c = "\"" -> "\\\""
      [] c = "\\" -> "\\\\"
      [] c = "\n" -> "\\n"
      [] c = "\t" -> "\\t"
      [] OTHER -> c

\* The escaped characters of s[lo..hi], by halves.
RECURSIVE EscapeRange(_, _, _)
EscapeRange(s, lo, hi) ==
    IF lo > hi THEN ""
    ELSE IF lo = hi THEN EscapeChar(CharAt(s, lo))
    ELSE LET mid == (lo + hi) \div 2 IN
         EscapeRange(s, lo, mid) \o EscapeRange(s, mid + 1, hi)

JsonString(s) == "\"" \o EscapeRange(s, 1, Len(s)) \o "\""

RECURSIVE Indent(_)
Indent(level) == IF level = 0 THEN "" ELSE "  " \o Indent(level - 1)

RECURSIVE JsonDump(_, _), DumpItems(_, _, _), DumpMembers(_, _, _)
JsonDump(value, level) ==
    CASE value.t = "str" -> JsonString(value.v)
      [] value.t = "int" -> IntToStr(value.v)
      [] value.t = "arr" ->
            IF Len(value.v) = 0 THEN "[]"
            ELSE "[\n" \o DumpItems(value.v, 1, level + 1)
                    \o "\n" \o Indent(level) \o "]"
      [] value.t = "obj" ->
            IF Len(value.v) = 0 THEN "{}"
            ELSE "{\n" \o DumpMembers(value.v, 1, level + 1)
                    \o "\n" \o Indent(level) \o "}"

DumpItems(items, i, level) ==
    Indent(level) \o JsonDump(items[i], level)
        \o (IF i < Len(items) THEN ",\n" \o DumpItems(items, i + 1, level)
            ELSE "")

DumpMembers(members, i, level) ==
    Indent(level) \o JsonString(members[i][1]) \o ": "
        \o JsonDump(members[i][2], level)
        \o (IF i < Len(members) THEN ",\n" \o DumpMembers(members, i + 1, level)
            ELSE "")

\* json.load: the value a JSON text denotes, or JError.
JError == [t |-> "error", v |-> 0]

RECURSIVE SkipWs(_, _)
SkipWs(s, i) ==
    IF CharAt(s, i) \in {" ", "\n", "\t"} THEN SkipWs(s, i + 1) ELSE i

UnescapeChar(c) ==
    CASE c = "n" -> "\n"
      [] c = "t" -> "\t"
      [] OTHER -> c

\* The number of backslashes that end at position k.
RECURSIVE BackslashRun(_, _)
BackslashRun(s, k) ==
    IF CharAt(s, k) = "\\" THEN 1 + BackslashRun(s, k - 1) ELSE 0

\* Position k of a string literal follows an escaping backslash.
Escaped(s, k) == BackslashRun(s, k - 1) % 2 = 1

\* The first unescaped quote in s[lo..hi], or 0; by halves.
RECURSIVE ClosingQuote(_, _, _)
ClosingQuote(s, lo, hi) ==
    IF lo > hi THEN 0
    ELSE IF lo = hi
         THEN (IF CharAt(s, lo) = "\"" /\ ~Escaped(s, lo) THEN lo ELSE 0)
    ELSE LET mid == (lo + hi) \div 2
             left == ClosingQuote(s, lo, mid)
         IN IF left # 0 THEN left ELSE ClosingQuote(s, mid + 1, hi)

\* The characters that s[lo..hi] of a string literal denotes; by halves.
RECURSIVE UnescapeRange(_, _, _)
UnescapeRange(s, lo, hi) ==
    IF lo > hi THEN ""
    ELSE IF lo = hi
         THEN (IF Escaped(s, lo) THEN UnescapeChar(CharAt(s, lo))
               ELSE IF CharAt(s, lo) = "\\" THEN ""
               ELSE CharAt(s, lo))
    ELSE LET mid == (lo + hi) \div 2 IN
         UnescapeRange(s, lo, mid) \o UnescapeRange(s, mid + 1, hi)

\* The string literal whose characters start at position i, after the
\* opening quote.
ParseChars(s, i) ==
    LET close == ClosingQuote(s, i, Len(s)) IN
    IF close = 0 THEN [ok |-> FALSE, val |-> "", pos |-> Len(s) + 1]
    ELSE [ok |-> TRUE, val |-> UnescapeRange(s, i, close - 1),
          pos |-> close + 1]

DigitValue(c) ==
    CASE c = "0" -> 0 [] c = "1" -> 1 [] c = "2" -> 2 [] c = "3" -> 3
      [] c = "4" -> 4 [] c = "5" -> 5 [] c = "6" -> 6 [] c = "7" -> 7
      [] c = "8" -> 8 [] c = "9" -> 9 [] OTHER -> -1

RECURSIVE ParseDigits(_, _, _)
ParseDigits(s, i, acc) ==
    IF DigitValue(CharAt(s, i)) >= 0
    THEN ParseDigits(s, i + 1, 10 * acc + DigitValue(CharAt(s, i)))
    ELSE [val |-> acc, pos |-> i]

ParseInt(s, i) ==
    IF CharAt(s, i) = "-"
    THEN LET r == ParseDigits(s, i + 1, 0) IN
         [ok |-> r.pos > i + 1, val |-> JInt(0 - r.val), pos |-> r.pos]
    ELSE LET r == ParseDigits(s, i, 0) IN
         [ok |-> r.pos > i, val |-> JInt(r.val), pos |-> r.pos]

RECURSIVE ParseValue(_, _), ParseItems(_, _), ParseMembers(_, _)
\* The value that starts at position i (after white space).
ParseValue(s, i0) ==
    LET i == SkipWs(s, i0)
        c == CharAt(s, i)
    IN IF c = "\""
       THEN LET r == ParseChars(s, i + 1) IN
            [ok |-> r.ok, val |-> JStr(r.val), pos |-> r.pos]
       ELSE IF c = "["
       THEN IF CharAt(s, SkipWs(s, i + 1)) = "]"
            THEN [ok |-> TRUE, val |-> JArr(<<>>), pos |-> SkipWs(s, i + 1) + 1]
            ELSE LET r == ParseItems(s, i + 1) IN
                 [ok |-> r.ok, val |-> JArr(r.val), pos |-> r.pos]
       ELSE IF c = "{"
       THEN IF CharAt(s, SkipWs(s, i + 1)) = "}"
            THEN [ok |-> TRUE, val |-> JObj(<<>>), pos |-> SkipWs(s, i + 1) + 1]
            ELSE LET r == ParseMembers(s, i + 1) IN
                 [ok |-> r.ok, val |-> JObj(r.val), pos |-> r.pos]
       ELSE ParseInt(s, i)

\* One or more array items up to the closing bracket.
ParseItems(s, i) ==
    LET item == ParseValue(s, i)
        j == SkipWs(s, item.pos)
    IN IF ~item.ok THEN [ok |-> FALSE, val |-> <<>>, pos |-> j]
       ELSE IF CharAt(s, j) = ","
       THEN LET r == ParseItems(s, j + 1) IN
            [ok |-> r.ok, val |-> <<item.val>> \o r.val, pos |-> r.pos]
       ELSE [ok |-> CharAt(s, j) = "]", val |-> <<item.val>>, pos |-> j + 1]

\* One or more "key": value members up to the closing brace.
ParseMembers(s, i0) ==
    LET i == SkipWs(s, i0)
        key == ParseChars(s, i + 1)
        colon == SkipWs(s, key.pos)
        item == ParseValue(s, colon + 1)
        j == SkipWs(s, item.pos)
    IN IF CharAt(s, i) # "\"" \/ ~key.ok \/ CharAt(s, colon) # ":" \/ ~item.ok
       THEN [ok |-> FALSE, val |-> <<>>, pos |-> j]
       ELSE IF CharAt(s, j) = ","
       THEN LET r == ParseMembers(s, j + 1) IN
            [ok |-> r.ok, val |-> <<(<<key.val, item.val>>)>> \o r.val,
             pos |-> r.pos]
       ELSE [ok |-> CharAt(s, j) = "}", val |-> <<(<<key.val, item.val>>)>>,
             pos |-> j + 1]

JsonLoad(s) ==
    LET r == ParseValue(s, 1) IN
    IF r.ok /\ SkipWs(s, r.pos) = Len(s) + 1 THEN r.val ELSE JError

\* str.startswith / str.endswith.
StartsWith(s, prefix) ==
    Len(s) >= Len(prefix) /\ SubSeq(s, 1, Len(prefix)) = prefix

EndsWith(s, suffix) ==
    Len(s) >= Len(suffix)
        /\ SubSeq(s, Len(s) - Len(suffix) + 1, Len(s)) = suffix

\* output_dir.glob('debate_*.json') (line 195).
Glob(dir) ==
    {f \in DOMAIN dir :
        /\ Len(f) >= Len("debate_") + Len(".json")
        /\ StartsWith(f, "debate_") /\ EndsWith(f, ".json")}

\* The path of line 195.
OutputFile(dir) == "debate_" \o IntToStr(Cardinality(Glob(dir)) + 1) \o ".json"

\* f-string of line 184.
InitialPromptOf(topic) ==
    "Let's debate this topic: " \o topic
        \o ". Please provide your opening argument."

RECURSIVE LogItems(_, _)
LogItems(history, i) ==
    IF i > Len(history) THEN <<>>
    ELSE <<JObj(<< <<"speaker", JStr(history[i].speaker)>>,
                   <<"message", JStr(history[i].message)>> >>)>>
            \o LogItems(history, i + 1)

SpeakerObject(participant) ==
    JObj(<< <<"name", JStr(participant[4])>>,
            <<"model", JStr(participant[2])>>,
            <<"personality", JStr(participant[3])>> >>)

\* Mutant: the log is saved without its first entry (history[1:]).
DebateDocument_dropSeed(history) ==
    JObj(<< <<"debate_topic", JStr(debate_topic)>>,
            <<"participants",
              JObj(<< <<"first_speaker", SpeakerObject(model1)>>,
                      <<"second_speaker", SpeakerObject(model2)>> >>)>>,
            <<"exchanges", JInt(turns)>>,
            <<"char_limit", JInt(max_chars)>>,
            <<"debate_log", JArr(LogItems(history, 2))>> >>)

\* The dict of lines 197-214.
DebateDocument(history) ==
    JObj(<< <<"debate_topic", JStr(debate_topic)>>,
            <<"participants",
              JObj(<< <<"first_speaker", SpeakerObject(model1)>>,
                      <<"second_speaker", SpeakerObject(model2)>> >>)>>,
            <<"exchanges", JInt(turns)>>,
            <<"char_limit", JInt(max_chars)>>,
            <<"debate_log", JArr(LogItems(history, 1))>> >>)

\* dict[key] on a loaded object; JError when the key is missing.
RECURSIVE MemberFrom(_, _, _)
MemberFrom(members, key, i) ==
    IF i > Len(members) THEN JError
    ELSE IF members[i][1] = key THEN members[i][2]
    ELSE MemberFrom(members, key, i + 1)

Member(value, key) ==
    IF value.t = "obj" THEN MemberFrom(value.v, key, 1) ELSE JError

\* The debate_log of a loaded document as {speaker, message} entries.
DebateLogOf(doc) ==
    LET log == Member(doc, "debate_log") IN
    IF log.t # "arr" THEN <<>>
    ELSE [i \in 1..Len(log.v) |->
            Entry(Member(log.v[i], "speaker").v, Member(log.v[i], "message").v)]

\* main() up to line 187: the driver is constructed from the inputs.
MainInit ==
    /\ model1 \in FirstParticipants
    /\ model2 \in SecondParticipants
    /\ debate_topic \in DebateTopics
    /\ initial_prompt = InitialPromptOf(debate_topic)
    /\ turns \in 0..MainTurns
    /\ max_chars \in {-1, MaxChars}
    /\ conversation_history = <<>>
    /\ pc = "NotStarted"
    /\ turn = 0
    /\ calls = <<>>
    /\ stdout = <<>>
    /\ result = <<>>
    /\ invocations = 0
    /\ propagated = ""
    /\ \E existing \in SUBSET DirNames : output_dir = [f \in existing |-> "old"]
    /\ output_file = ""
    /\ loaded = <<>>
    /\ OllamaIdle
    /\ ClientIdle
    /\ BrochureIdle

\* Lines 192-217: the returned history is written to output/debate_N.json.
SaveDebate ==
    /\ pc \in {"Completed", "Aborted"}
    /\ LET path == OutputFile(output_dir)
           text == JsonDump(DebateDocument(result), 0)
       IN /\ output_file' = path
          /\ output_dir' = [f \in DOMAIN output_dir \cup {path} |->
                               IF f = path THEN text ELSE output_dir[f]]
          /\ stdout' = Append(Append(stdout, "\n=== Debate Saved ==="),
                              "File: output/" \o path)
    /\ pc' = "Saved"
    /\ UNCHANGED <<config, conversation_history, turn, calls, result,
                   invocations, propagated, debate_topic, loaded, ollamaVars,
                   clientVars, brochureVars>>

\* The saved file is read back with json.load.
ReloadDebate ==
    /\ pc = "Saved"
    /\ loaded' = DebateLogOf(JsonLoad(output_dir[output_file]))
    /\ pc' = "Reloaded"
    /\ UNCHANGED <<config, conversation_history, turn, calls, stdout, result,
                   invocations, propagated, debate_topic, output_dir, output_file,
                   ollamaVars, clientVars, brochureVars>>

MainNext == Next \/ SaveDebate \/ ReloadDebate

MainSpec == MainInit /\ [][MainNext]_vars

(* ------------------- OllamaClient.get_completion ----------------------- *)
\* A bound: get_completion calls made on one client.
MaxCalls == 2

OllamaModels == {"llama3", "phi"}

\* No conversation driver in use.
DriverIdle ==
    /\ model1 = <<"client1", "gpt", "You are p", "A">>
    /\ model2 = <<"client2", "llama", "You are q", "B">>
    /\ initial_prompt = ""
    /\ turns = 0
    /\ max_chars = 0
    /\ conversation_history = <<>>
    /\ pc = "NotStarted"
    /\ turn = 0
    /\ calls = <<>>
    /\ stdout = <<>>
    /\ result = <<>>
    /\ invocations = 0
    /\ propagated = ""

driverVars == <<config, conversation_history, pc, turn, calls, stdout, result,
                invocations, propagated>>

\* An HTTP request of call number n, waiting for its response.
HttpRequest(n, method, path, body) ==
    [call |-> n, method |-> method, path |-> path, body |-> body,
     status |-> "pending", models |-> {}]

\* The payload of lines 78-86.
GeneratePayload(req) ==
    [model |-> req.model,
     prompt |-> req.system_prompt \o "\n\n" \o req.user_prompt,
     temperature |-> "0.7",
     stream |-> FALSE]

\* The last request of the log gets its response.
Responded(log, status, models) ==
    [log EXCEPT ![Len(log)].status = status, ![Len(log)].models = models]

\* Mutant: the membership test of line 42 is skipped, no pull is issued.
NeedsPull_never(model, models) == FALSE

\* Line 42.
NeedsPull(model, models) == model \notin models

\* An exception leaves get_completion.
Raises(class, message) == [kind |-> "raise", class |-> class, value |-> message]

\* get_completion is called; _ensure_model asks for the tags (lines 73-75,
\* 36-38).
OllamaCall ==
    /\ ollama_pc \in {"idle", "done"}
    /\ ncalls < MaxCalls
    /\ \E m \in OllamaModels, up \in {"Hi", "Tell a joke"} :
          request' = [system_prompt |-> "You are p", user_prompt |-> up,
                      model |-> m]
    /\ ncalls' = ncalls + 1
    /\ http' = Append(http, HttpRequest(ncalls + 1, "GET", "/api/tags", ""))
    /\ completion' = NoCompletion
    /\ ollama_pc' = "tags"
    /\ UNCHANGED <<local_models, driverVars, mainVars,
                   clientVars, brochureVars>>

\* /api/tags answers with the local models (lines 39-49, 78-92): the model
\* is pulled when it is not among them, otherwise generate is requested.
TagsOk ==
    /\ ollama_pc = "tags"
    /\ IF NeedsPull(request.model, local_models)
       THEN /\ http' = Append(Responded(http, "ok", local_models),
                         HttpRequest(ncalls, "POST", "/api/pull",
                                     [name |-> request.model]))
            /\ ollama_pc' = "pull"
       ELSE /\ http' = Append(Responded(http, "ok", local_models),
                         HttpRequest(ncalls, "POST", "/api/generate",
                                     GeneratePayload(request)))
            /\ ollama_pc' = "generate"
    /\ UNCHANGED <<local_models, request, completion, ncalls,
                   driverVars, mainVars,
                   clientVars, brochureVars>>

\* /api/tags fails with a RequestException (lines 38-39, 50-51); the
\* Exception of line 51 is no RequestException and leaves get_completion.
TagsFails ==
    /\ ollama_pc = "tags"
    /\ \E e \in Errors :
          completion' = Raises("Exception",
                            "Error ensuring model availability: " \o e)
    /\ http' = Responded(http, "error", {})
    /\ ollama_pc' = "done"
    /\ UNCHANGED <<local_models, request, ncalls, driverVars, mainVars,
                   clientVars, brochureVars>>

\* /api/tags answers with a body without 'models' (line 40): KeyError.
TagsMalformed ==
    /\ ollama_pc = "tags"
    /\ completion' = Raises("KeyError", "'models'")
    /\ http' = Responded(http, "malformed", {})
    /\ ollama_pc' = "done"
    /\ UNCHANGED <<local_models, request, ncalls, driverVars, mainVars,
                   clientVars, brochureVars>>

\* The pull succeeds (lines 48-49), then generate is requested (78-92).
PullOk ==
    /\ ollama_pc = "pull"
    /\ local_models' = local_models \cup {request.model}
    /\ http' = Append(Responded(http, "ok", {}),
                  HttpRequest(ncalls, "POST", "/api/generate",
                              GeneratePayload(request)))
    /\ ollama_pc' = "generate"
    /\ UNCHANGED <<request, completion, ncalls, driverVars, mainVars,
                   clientVars, brochureVars>>

\* The pull fails (lines 48, 50-51).
PullFails ==
    /\ ollama_pc = "pull"
    /\ \E e \in Errors :
          completion' = Raises("Exception",
                            "Error ensuring model availability: " \o e)
    /\ http' = Responded(http, "error", {})
    /\ ollama_pc' = "done"
    /\ UNCHANGED <<local_models, request, ncalls, driverVars, mainVars,
                   clientVars, brochureVars>>

\* generate answers with the text (lines 93-97).
GenerateOk ==
    /\ ollama_pc = "generate"
    /\ \E text \in {"", "ha"} :
          completion' = [kind |-> "return", class |-> "", value |-> text]
    /\ http' = Responded(http, "ok", {})
    /\ ollama_pc' = "done"
    /\ UNCHANGED <<local_models, request, ncalls, driverVars, mainVars,
                   clientVars, brochureVars>>

\* generate fails with a RequestException (lines 93, 99-100).
GenerateFails ==
    /\ ollama_pc = "generate"
    /\ \E e \in Errors :
          completion' = Raises("Exception",
                            "Error getting completion from Ollama: " \o e)
    /\ http' = Responded(http, "error", {})
    /\ ollama_pc' = "done"
    /\ UNCHANGED <<local_models, request, ncalls, driverVars, mainVars,
                   clientVars, brochureVars>>

\* generate answers with a body without 'response' (line 97): KeyError,
\* which the except clause of line 99 does not catch.
GenerateMalformed ==
    /\ ollama_pc = "generate"
    /\ completion' = Raises("KeyError", "'response'")
    /\ http' = Responded(http, "malformed", {})
    /\ ollama_pc' = "done"
    /\ UNCHANGED <<local_models, request, ncalls, driverVars, mainVars,
                   clientVars, brochureVars>>

\* An OllamaClient was constructed against a server holding some models.
OllamaInit ==
    /\ DriverIdle
    /\ MainIdle
    /\ ClientIdle
    /\ BrochureIdle
    /\ ollama_pc = "idle"
    /\ local_models \in SUBSET OllamaModels
    /\ http = <<>>
    /\ request = NoRequest
    /\ completion = NoCompletion
    /\ ncalls = 0

OllamaNext ==
    \/ OllamaCall \/ TagsOk \/ TagsFails \/ TagsMalformed
    \/ PullOk \/ PullFails
    \/ GenerateOk \/ GenerateFails \/ GenerateMalformed

OllamaSpec == OllamaInit /\ [][OllamaNext]_vars

(* ------------------- provider client construction ---------------------- *)
\* Keys passed or found in the environment; ValidKeys are the ones the
\* provider's API accepts.
Keys == {None, "", "sk-abc", "sk-a b", "abc"}
ValidKeys == {"sk-abc"}

\* a or b on Optional[str]: None and "" are falsy (lines 14 of both
\* clients).
Or(a, b) == IF a = None \/ a = "" THEN b ELSE a

RECURSIVE Contains(_, _, _)
\* c in s, searched from position i.
Contains(s, c, i) ==
    IF i > Len(s) THEN FALSE
    ELSE CharAt(s, i) = c \/ Contains(s, c, i + 1)

RECURSIVE IsBlankFrom(_, _)
\* not s.strip(), from position i.
IsBlankFrom(s, i) ==
    IF i > Len(s) THEN TRUE
    ELSE CharAt(s, i) \in {" ", "\t", "\n"} /\ IsBlankFrom(s, i + 1)

\* The condition of OpenAIClient._validate_connection (lines 25-29).
InvalidOpenAIKey(key) ==
    \/ key = None
    \/ IsBlankFrom(key, 1)
    \/ Contains(key, " ", 1)
    \/ Contains(key, "\t", 1)
    \/ ~StartsWith(key, "sk-")

\* OpenAIClient.__init__ (lines 14-16): only the format of the key is
\* checked, nothing is sent to the backend.
ConstructOpenAI ==
    /\ provider = "openai"
    /\ client = NoClient /\ ctor_error = ""
    /\ LET api_key == Or(key_arg, key_env) IN
       IF InvalidOpenAIKey(api_key)
       THEN ctor_error' = "ValueError" /\ client' = client
       ELSE /\ client' = [provider |-> "openai", api_key |-> api_key]
            /\ ctor_error' = "ok"
    /\ UNCHANGED <<provider, key_arg, key_env, backend,
                   driverVars, mainVars, ollamaVars,
                   brochureVars>>

\* AnthropicClient.__init__ (lines 14-19) and _validate_connection (28-32):
\* any exception of models.list() becomes a ConnectionError.
ConstructAnthropic ==
    /\ provider = "anthropic"
    /\ client = NoClient /\ ctor_error = ""
    /\ LET api_key == Or(key_arg, key_env) IN
       IF api_key = None \/ api_key = ""
       THEN ctor_error' = "ValueError" /\ client' = client
       ELSE IF backend = "down" \/ api_key \notin ValidKeys
       THEN ctor_error' = "ConnectionError" /\ client' = client
       ELSE /\ client' = [provider |-> "anthropic", api_key |-> api_key]
            /\ ctor_error' = "ok"
    /\ UNCHANGED <<provider, key_arg, key_env, backend,
                   driverVars, mainVars, ollamaVars,
                   brochureVars>>

\* OllamaClient.__init__ (lines 13-14) and _validate_connection (23-27).
ConstructOllama ==
    /\ provider = "ollama"
    /\ client = NoClient /\ ctor_error = ""
    /\ IF backend = "down"
       THEN ctor_error' = "ConnectionError" /\ client' = client
       ELSE /\ client' = [provider |-> "ollama", api_key |-> None]
            /\ ctor_error' = "ok"
    /\ UNCHANGED <<provider, key_arg, key_env, backend,
                   driverVars, mainVars, ollamaVars,
                   brochureVars>>

ClientInit ==
    /\ DriverIdle
    /\ MainIdle
    /\ OllamaIdle
    /\ BrochureIdle
    /\ provider \in {"openai", "anthropic", "ollama"}
    /\ key_arg \in Keys
    /\ key_env \in Keys
    /\ backend \in {"up", "down"}
    /\ client = NoClient
    /\ ctor_error = ""

ClientNext == ConstructOpenAI \/ ConstructAnthropic \/ ConstructOllama

ClientSpec == ClientInit /\ [][ClientNext]_vars

(* ----------------------- company_brochure (app.py) --------------------- *)
\* A bound: the links found on the main page.
MaxLinks == 3

LinkUrls ==
    {"https://acme.com/a", "https://acme.com/b", "https://acme.com/c",
     "https://acme.com/d"}

\* main_site.links: _extract_links keeps no duplicates (webscraper.py 148).
LinkLists ==
    {ls \in UNION {[1..n -> LinkUrls] : n \in 0..MaxLinks} :
        \A i, j \in 1..Len(ls) : i # j => ls[i] # ls[j]}

\* What a successful Website(u) holds.
TitleOf(u) == "Title of " \o u
TextOf(u) == "Text of " \o u

\* The section appended at lines 88-94.
PageSection(link) ==
    "\n=== PAGE ===\n" \o "URL: " \o link \o "\n"
        \o "Title: " \o TitleOf(link) \o "\n"
        \o "Content:\n" \o SliceTo(TextOf(link), 1000) \o "\n"
        \o "============="

RECURSIVE Join(_, _)
\* ''.join(parts), from index i.
Join(parts, i) == IF i > Len(parts) THEN "" ELSE parts[i] \o Join(parts, i + 1)

\* combined_content of lines 99-107.
CombinedContent(main, sections) ==
    "=== MAIN PAGE ===\n" \o "URL: " \o main \o "\n"
        \o "Title: " \o TitleOf(main) \o "\n"
        \o "Content:\n" \o TextOf(main) \o "\n"
        \o "===============\n" \o "\n=== SUBPAGES ===\n" \o Join(sections, 1)

RECURSIVE ReplaceDots(_, _)
\* domain.replace(".", "_"), from position i (line 138).
ReplaceDots(domain, i) ==
    IF i > Len(domain) THEN ""
    ELSE (IF CharAt(domain, i) = "." THEN "_" ELSE CharAt(domain, i))
            \o ReplaceDots(domain, i + 1)

\* urlparse(url).netloc of an https url without a path (line 137).
Netloc(u) == SubSeq(u, Len("https://") + 1, Len(u))

Fetch(phase, u, ok) == [phase |-> phase, url |-> u, ok |-> ok]

\* Where the function goes after the loop body of link number i.
AfterLink(loop, i) ==
    IF i < Len(links) THEN loop
    ELSE IF loop = "gather" THEN "summary" ELSE "complete"

\* The parse summary of the main page (lines 110-113).
ParseSummary ==
    <<"\nParse Summary:", "Title: " \o TitleOf(url), "URL: " \o url,
      "Characters extracted: " \o IntToStr(Len(TextOf(url)))>>

\* The print output once the gathering loop is left after link number i.
AfterGather(i) ==
    IF i < Len(links) THEN b_stdout ELSE b_stdout \o ParseSummary

\* company_brochure(url, client, model) is called.
BrochureInit ==
    /\ DriverIdle
    /\ MainIdle
    /\ OllamaIdle
    /\ ClientIdle
    /\ b_pc = "start"
    /\ url \in {"https://acme.com"}
    /\ links = <<>>
    /\ link_i = 0
    /\ additional_content = <<>>
    /\ fetches = <<>>
    /\ b_calls = <<>>
    /\ b_stdout = <<>>
    /\ b_files = [f \in {} |-> ""]
    /\ b_result = [kind |-> "none", class |-> "", value |-> ""]

brochureFrame == <<driverVars, mainVars, ollamaVars, clientVars, url>>

\* The main page is fetched (lines 80-84).
FetchMainOk ==
    /\ b_pc = "start"
    /\ \E ls \in LinkLists :
          /\ links' = ls
          /\ b_pc' = IF Len(ls) = 0 THEN "complete" ELSE "gather"
          /\ b_stdout' =
                <<"\nGathering content from internal pages...">>
                    \o (IF Len(ls) = 0 THEN ParseSummary ELSE <<>>)
    /\ link_i' = 1
    /\ fetches' = Append(fetches, Fetch("main", url, TRUE))
    /\ UNCHANGED <<brochureFrame, additional_content, b_calls, b_files, b_result>>

\* The fetch of the main page raises (lines 80, 177-178).
FetchMainFails ==
    /\ b_pc = "start"
    /\ fetches' = Append(fetches, Fetch("main", url, FALSE))
    /\ \E e \in Errors :
          b_result' = [kind |-> "raise", class |-> "Exception",
                       value |-> "Error in brochure generation: " \o e]
    /\ b_pc' = "done"
    /\ UNCHANGED <<brochureFrame, links, link_i, additional_content, b_calls,
                   b_stdout, b_files>>

\* A subpage is fetched and its section appended (lines 85-94).
GatherOk ==
    /\ b_pc = "gather"
    /\ fetches' = Append(fetches, Fetch("gather", links[link_i], TRUE))
    /\ additional_content' =
          Append(additional_content, PageSection(links[link_i]))
    /\ link_i' = IF link_i < Len(links) THEN link_i + 1 ELSE 1
    /\ b_pc' = AfterLink("gather", link_i)
    /\ b_stdout' = AfterGather(link_i)
    /\ UNCHANGED <<brochureFrame, links, b_calls, b_files, b_result>>

\* Mutant: the except clause of lines 95-96 ends the loop (break).
GatherFails_break ==
    /\ b_pc = "gather"
    /\ fetches' = Append(fetches, Fetch("gather", links[link_i], FALSE))
    /\ link_i' = 1
    /\ b_pc' = "summary"
    /\ b_stdout' = b_stdout \o ParseSummary
    /\ UNCHANGED <<brochureFrame, links, additional_content, b_calls, b_files,
                   b_result>>

\* The fetch of a subpage raises: the link is skipped (lines 95-96).
GatherFails ==
    /\ b_pc = "gather"
    /\ fetches' = Append(fetches, Fetch("gather", links[link_i], FALSE))
    /\ link_i' = IF link_i < Len(links) THEN link_i + 1 ELSE 1
    /\ b_pc' = AfterLink("gather", link_i)
    /\ b_stdout' = AfterGather(link_i)
    /\ UNCHANGED <<brochureFrame, links, additional_content, b_calls, b_files,
                   b_result>>

\* The parse summary fetches a subpage again and prints it (lines 115-120).
SummaryOk ==
    /\ b_pc = "summary"
    /\ fetches' = Append(fetches, Fetch("summary", links[link_i], TRUE))
    /\ b_stdout' = Append(b_stdout,
          "\nTitle: " \o TitleOf(links[link_i]) \o "\nURL: " \o links[link_i]
              \o "\nCharacters extracted: "
              \o IntToStr(Len(TextOf(links[link_i]))))
    /\ link_i' = IF link_i < Len(links) THEN link_i + 1 ELSE 1
    /\ b_pc' = AfterLink("summary", link_i)
    /\ UNCHANGED <<brochureFrame, links, additional_content, b_calls, b_files,
                   b_result>>

\* The second fetch of a subpage raises: nothing is printed (121-122).
SummaryFails ==
    /\ b_pc = "summary"
    /\ fetches' = Append(fetches, Fetch("summary", links[link_i], FALSE))
    /\ link_i' = IF link_i < Len(links) THEN link_i + 1 ELSE 1
    /\ b_pc' = AfterLink("summary", link_i)
    /\ UNCHANGED <<brochureFrame, links, additional_content, b_calls, b_stdout,
                   b_files, b_result>>

\* The arguments substituted into the user prompt template (lines 125-129).
BrochurePrompt ==
    [url |-> url, title |-> TitleOf(url),
     text |-> CombinedContent(url, additional_content)]

\* get_completion returns: both files are written (lines 130-175).
CompleteOk ==
    /\ b_pc = "complete"
    /\ \E text \in {"# Acme", ""} :
          LET safe_filename == ReplaceDots(Netloc(url), 1)
              md_path == safe_filename \o "_brochure.md"
              html_path == safe_filename \o "_brochure.html"
          IN /\ b_files' = [f \in DOMAIN b_files \cup {md_path, html_path} |->
                               IF f = md_path THEN text
                               ELSE IF f = html_path
                                    THEN "<body>" \o text \o "</body>"
                               ELSE b_files[f]]
             /\ b_stdout' = b_stdout \o <<"\nFiles saved:",
                                "Markdown: output/" \o md_path,
                                "HTML: output/" \o html_path>>
             /\ b_result' = [kind |-> "return", class |-> "", value |-> text]
    /\ b_calls' = Append(b_calls, BrochurePrompt)
    /\ b_pc' = "done"
    /\ UNCHANGED <<brochureFrame, links, link_i, additional_content, fetches>>

\* get_completion raises (lines 130, 177-178).
CompleteFails ==
    /\ b_pc = "complete"
    /\ b_calls' = Append(b_calls, BrochurePrompt)
    /\ \E e \in Errors :
          b_result' = [kind |-> "raise", class |-> "Exception",
                       value |-> "Error in brochure generation: " \o e]
    /\ b_pc' = "done"
    /\ UNCHANGED <<brochureFrame, links, link_i, additional_content, fetches,
                   b_stdout, b_files>>

BrochureNext ==
    \/ FetchMainOk \/ FetchMainFails
    \/ GatherOk \/ GatherFails
    \/ SummaryOk \/ SummaryFails
    \/ CompleteOk \/ CompleteFails

BrochureSpec == BrochureInit /\ [][BrochureNext]_vars

(* ------------------------------ properties ----------------------------- *)
\* run_conversation has returned.
Terminal == pc \in {"Completed", "Aborted"}

AllCallsSucceeded == \A i \in 1..Len(calls) : calls[i].outcome = "returned"

Speakers(history) == [i \in 1..Len(history) |-> history[i].speaker]

\* C1: a run in which every completion call succeeds returns a transcript
\* of exactly turns + 1 entries, the seed plus one entry per turn.
C1_SuccessfulRunLength ==
    (Terminal /\ AllCallsSucceeded) => Len(result) = turns + 1

C1_Witness ==
    /\ Terminal /\ AllCallsSucceeded
    /\ turns = 4 /\ Len(calls) = 4 /\ Len(result) = 5

\* C2: the entry of turn i (entry i+1 of the transcript) is spoken by
\* participant 1 when i is even and by participant 2 when i is odd.
C2_StrictAlternation ==
    \A i \in 0..(Len(conversation_history) - 2) :
        conversation_history[i + 2].speaker =
            IF i % 2 = 0 THEN model1[4] ELSE model2[4]

C2_Witness ==
    /\ pc = "Completed" /\ turns = 4
    /\ Speakers(result) = <<"Moderator", "A", "B", "A", "B">>

\* C3: when the completion call of turn k raises, run_conversation still
\* returns, and what it returns is the seed followed by the entries of the
\* k turns before it: k + 1 entries, none for turn k or a later turn.
C3_FailureAbort ==
    \A i \in 1..Len(calls) :
        calls[i].outcome = "raised" =>
            LET k == calls[i].turn IN
            /\ pc = "Aborted"
            /\ Len(result) = k + 1
            /\ result = conversation_history
            /\ \A j \in 1..Len(calls) :
                  calls[j].outcome = "returned" => calls[j].turn < k

C3_Witness ==
    /\ pc = "Aborted" /\ turns = 4
    /\ Len(calls) = 3 /\ calls[3].outcome = "raised" /\ calls[3].turn = 2
    /\ Len(result) = 3

\* C4: with a positive max_chars, a returned text longer than max_chars is
\* stored as its first max_chars characters followed by "...", and a text
\* of at most max_chars characters is stored as it is.
C4_TruncationRule ==
    max_chars > 0 =>
        \A i \in 1..Len(calls) :
            calls[i].outcome = "returned" =>
                LET text == calls[i].text
                    stored == conversation_history[i + 1].message
                IN IF Len(text) > max_chars
                   THEN stored = SubSeq(text, 1, max_chars) \o "..."
                   ELSE stored = text

C4_Witness ==
    /\ max_chars = 2 /\ Len(conversation_history) = 4
    /\ calls[1].text = "abcd" /\ conversation_history[2].message = "ab..."
    /\ calls[2].text = "ab" /\ conversation_history[3].message = "ab"
    /\ calls[3].text = "a" /\ conversation_history[4].message = "a"

\* C5: the seed entry (Moderator, initial prompt) is in place before any
\* completion call is issued, and is entry 0 of every returned transcript.
C5_SeedFirst ==
    LET seed == [speaker |-> "Moderator", message |-> initial_prompt] IN
    /\ pc # "NotStarted" =>
          Len(conversation_history) >= 1 /\ conversation_history[1] = seed
    /\ Len(calls) > 0 => pc # "NotStarted"
    /\ Terminal => Len(result) >= 1 /\ result[1] = seed

C5_Witness ==
    /\ pc = "Aborted" /\ Len(calls) = 1 /\ calls[1].outcome = "raised"
    /\ result = <<[speaker |-> "Moderator", message |-> initial_prompt]>>

\* C6: the transcript is append-only: every step leaves the transcript it
\* found as a prefix of the new one and adds at most one entry at the end.
C6_AppendOnly ==
    [][ /\ Len(conversation_history') >= Len(conversation_history)
        /\ Len(conversation_history') <= Len(conversation_history) + 1
        /\ SubSeq(conversation_history', 1, Len(conversation_history))
              = conversation_history ]_vars

C6_Witness ==
    /\ pc = "Running" /\ Len(conversation_history) = 4
    /\ conversation_history[2].message # conversation_history[3].message
    /\ conversation_history[3].message # conversation_history[4].message

TurnEntries ==
    IF Len(conversation_history) = 0 THEN 0 ELSE Len(conversation_history) - 1

\* C7: every turn issues exactly one completion call, in turn order, and
\* no call follows one that raised: the calls are the appended turn
\* entries, plus the one call that is pending or raised.
C7_NoRetryNoSkip ==
    /\ \A i \in 1..Len(calls) :
          /\ calls[i].turn = i - 1
          /\ calls[i].outcome = "raised" => i = Len(calls) /\ pc = "Aborted"
          /\ calls[i].outcome = "pending" => i = Len(calls) /\ pc = "Awaiting"
    /\ Len(calls) =
          TurnEntries + (IF pc \in {"Awaiting", "Aborted"} THEN 1 ELSE 0)

C7_Witness ==
    /\ pc = "Aborted" /\ turns = 4
    /\ Len(calls) = 2 /\ calls[1].outcome = "returned"
    /\ calls[2].outcome = "raised" /\ TurnEntries = 1

RECURSIVE RenderLines(_)
RenderLines(entries) ==
    IF entries = <<>> THEN ""
    ELSE Head(entries).speaker \o ": " \o Head(entries).message \o "\n"
            \o RenderLines(Tail(entries))

\* C9: the user content of the call of turn i is the heading, then each of
\* the i + 1 entries then in the transcript (seed included) as one
\* "speaker: message" line in transcript order, with the stored messages,
\* then the instruction that carries max_chars.
C9_FullHistoryReplay ==
    \A i \in 1..Len(calls) :
        calls[i].user_prompt =
            "Here's the conversation so far:\n"
                \o RenderLines(SubSeq(conversation_history, 1, i))
                \o "\nPlease provide your response. Keep it under "
                \o ToString(max_chars) \o " characters:"

C9_Witness ==
    /\ max_chars = 2 /\ initial_prompt = "" /\ Len(calls) = 2
    /\ calls[1].text = "abcd"
    /\ calls[2].user_prompt =
          "Here's the conversation so far:\nModerator: \nA: ab...\n\nPlease provide your response. Keep it under 2 characters:"

\* C10: the call of every turn goes to the active participant's own
\* client with its own system prompt and model, never the other
\* participant's, and the entry it yields carries the same participant's
\* display name.
C10_ParticipantBinding ==
    \A i \in 1..Len(calls) :
        LET own == IF (i - 1) % 2 = 0 THEN model1 ELSE model2
            other == IF (i - 1) % 2 = 0 THEN model2 ELSE model1
        IN /\ calls[i].client = own[1]
           /\ calls[i].model = own[2]
           /\ calls[i].system_prompt = own[3]
           /\ own[1] # other[1] => calls[i].client # other[1]
           /\ own[2] # other[2] => calls[i].model # other[2]
           /\ own[3] # other[3] => calls[i].system_prompt # other[3]
           /\ calls[i].outcome = "returned" =>
                 conversation_history[i + 1].speaker = own[4]

C10_Witness ==
    /\ model2 = <<"client2", "llama", "You are q", "B">>
    /\ Len(calls) = 2 /\ calls[2].outcome = "returned"
    /\ calls[1].client = "client1" /\ calls[1].system_prompt = "You are p"
    /\ calls[2].client = "client2" /\ calls[2].system_prompt = "You are q"
    /\ calls[2].model = "llama"
    /\ conversation_history[3].speaker = "B"

\* C11: saving a run never overwrites a debate file that is already in the
\* output directory, whatever debate_*.json files are there.
C11_NoOverwrite ==
    [][\A f \in DOMAIN output_dir :
          f \in DOMAIN output_dir' /\ output_dir'[f] = output_dir[f]]_vars

\* C12: the debate_log read back from the saved file is the transcript the
\* run returned: same length, same order, same speaker and message at each
\* index, for completed and for aborted runs.
C12_RoundTrip ==
    pc = "Reloaded" =>
        /\ Len(loaded) = Len(result)
        /\ \A i \in 1..Len(result) :
              /\ loaded[i].speaker = result[i].speaker
              /\ loaded[i].message = result[i].message

C12_Witness ==
    /\ pc = "Reloaded" /\ Len(calls) = 2 /\ calls[2].outcome = "raised"
    /\ debate_topic = "is \"a\\b\" c?"
    /\ Len(loaded) = 2 /\ loaded[2].message = "\"\\\n"

\* The requests of call n sent before position g of the log.
Earlier(n, g, path) ==
    {i \in 1..(g - 1) : http[i].call = n /\ http[i].path = path}

\* C13: in OllamaClient.get_completion a generate request is sent only
\* after the tags check succeeded and, when the model was not listed, after
\* a pull of that model succeeded; no pull is issued for a listed model;
\* a failed check or pull ends the call with an exception.
C13_PullBeforeGenerate ==
    /\ \A g \in 1..Len(http) :
          http[g].path = "/api/generate" =>
              \E t \in Earlier(http[g].call, g, "/api/tags") :
                  /\ http[t].status = "ok"
                  /\ IF http[g].body.model \in http[t].models
                     THEN Earlier(http[g].call, g, "/api/pull") = {}
                     ELSE \E q \in Earlier(http[g].call, g, "/api/pull") :
                             /\ t < q
                             /\ http[q].body.name = http[g].body.model
                             /\ http[q].status = "ok"
    /\ \A i \in 1..Len(http) :
          /\ (http[i].path = "/api/pull" =>
                 \E t \in Earlier(http[i].call, i, "/api/tags") :
                     http[t].status = "ok"
                         /\ http[i].body.name \notin http[t].models)
          /\ (http[i].path # "/api/generate" /\ http[i].status = "error" =>
                 /\ \A g \in 1..Len(http) :
                       http[g].call = http[i].call
                           => http[g].path # "/api/generate"
                 /\ (http[i].call = ncalls => completion.kind = "raise"))

C13_Witness ==
    /\ Len(http) = 5 /\ ollama_pc = "done" /\ completion.kind = "return"
    /\ http[1].path = "/api/tags" /\ http[1].models = {}
    /\ http[2].path = "/api/pull" /\ http[2].status = "ok"
    /\ http[3].path = "/api/generate" /\ http[3].body.model = "phi"
    /\ http[4].path = "/api/tags" /\ http[4].models = {"phi"}
    /\ http[5].path = "/api/generate" /\ http[5].body.model = "phi"

\* The credential is missing or malformed.
BadCredential(key) ==
    key = None \/ key = "" \/ Contains(key, " ", 1) \/ ~StartsWith(key, "sk-")

\* C14: construction validates the connection: with a missing or malformed
\* credential it raises the credential error (ValueError), with an
\* unreachable backend the connectivity error (ConnectionError), and in
\* both cases leaves no client object; an explicitly passed credential is
\* the one used.
C14_ConstructionErrors ==
    ctor_error # "" =>
        LET used == Or(key_arg, key_env)
            needsKey == provider # "ollama"
        IN /\ ctor_error # "ok" => client = NoClient
           /\ (needsKey /\ BadCredential(used)) => ctor_error # "ok"
           /\ (needsKey /\ BadCredential(used) /\ backend = "up")
                 => ctor_error = "ValueError"
           /\ ((~needsKey \/ ~BadCredential(used)) /\ backend = "down")
                 => ctor_error = "ConnectionError"
           /\ (needsKey /\ key_arg \notin {None, ""} /\ ctor_error = "ok")
                 => client.api_key = key_arg

\* C15: get_completion ends in one of two ways: it returns the text of the
\* completion, or it raises the completion error that wraps the underlying
\* transport or API error; no other exception class leaves it.
C15_TwoOutcomes ==
    ollama_pc = "done" =>
        \/ completion.kind = "return"
        \/ /\ completion.kind = "raise"
           /\ completion.class = "Exception"
           /\ \E e \in Errors : EndsWith(completion.value, ": " \o e)

\* C16: a failed run returns the partial transcript, its error report tells
\* which turn failed (the report of no other turn reads the same), and the
\* failure reaches the caller of run_conversation as an error.
C16_FailureSurfaced ==
    pc = "Aborted" =>
        /\ result = conversation_history
        /\ \A t \in 0..(turns - 1), e \in Errors :
              t # turn =>
                  stdout[Len(stdout)] #
                      "\nError getting response from " \o speaker(t) \o ": " \o e
        /\ propagated # ""

\* The fetch attempts of one phase, in the order made.
FetchesOf(phase) == SelectSeq(fetches, LAMBDA f : f.phase = phase)

\* The sections of the links whose gathering fetch succeeded, in link order.
RECURSIVE SectionsOf(_)
SectionsOf(log) ==
    IF log = <<>> THEN <<>>
    ELSE (IF Head(log).ok THEN <<PageSection(Head(log).url)>> ELSE <<>>)
            \o SectionsOf(Tail(log))

\* C17: in company_brochure a failed subpage fetch skips that subpage only:
\* every link is still tried in link order, the pages fetched are gathered
\* in that order and the completion call is made with them; a failed fetch
\* of the main page ends the call with an exception, without a completion
\* call and without files.
C17_SecondarySkipped ==
    LET main == FetchesOf("main")
        gather == FetchesOf("gather")
    IN /\ (b_pc \in {"summary", "complete", "done"} /\ Len(main) = 1 /\ main[1].ok) =>
             /\ Len(gather) = Len(links)
             /\ \A i \in 1..Len(links) : gather[i].url = links[i]
             /\ additional_content = SectionsOf(gather)
       /\ (b_pc = "done" /\ Len(main) = 1 /\ main[1].ok) =>
             /\ Len(b_calls) = 1
             /\ b_calls[1].text = CombinedContent(url, SectionsOf(gather))
       /\ (Len(main) = 1 /\ ~main[1].ok) =>
             /\ b_pc = "done"
             /\ b_result.kind = "raise"
             /\ b_calls = <<>>
             /\ b_files = [f \in {} |-> ""]
             /\ Len(fetches) = 1

C17_Witness ==
    /\ b_pc = "done" /\ b_result.kind = "return" /\ Len(links) = 3
    /\ FetchesOf("gather") =
          <<Fetch("gather", links[1], TRUE), Fetch("gather", links[2], FALSE),
            Fetch("gather", links[3], TRUE)>>
    /\ additional_content = <<PageSection(links[1]), PageSection(links[3])>>
    /\ Len(b_calls) = 1

\* The seed entries of a transcript: no participant shares the name
\* Moderator, so these are the entries appended at lines 39-42.
SeedEntries(history) ==
    {i \in 1..Len(history) : history[i].speaker = "Moderator"}

\* C18: every invocation of run_conversation returns the transcript of that
\* run only, with exactly one Moderator seed entry, first, and at most
\* turns + 1 entries, also when the driver object has run before.
C18_TranscriptPerRun ==
    (pc \in {"Completed", "Aborted"} /\ "Moderator" \notin {model1[4], model2[4]}) =>
        /\ Len(result) <= turns + 1
        /\ SeedEntries(result) = {1}

\* The messages stored by the turns of the run (the seed is not truncated).
StoredMessages ==
    {conversation_history[i].message : i \in 2..Len(conversation_history)}

\* C19: truncation is idempotent: with max_chars at least the length of the
\* marker, the truncation step applied to a stored message returns it
\* unchanged, and no stored message is longer than max_chars plus the marker.
C19_TruncationIdempotent ==
    max_chars >= Len(Marker) =>
        \A m \in StoredMessages :
            /\ Truncate(m, max_chars) = m
            /\ Len(m) <= max_chars + Len(Marker)

C19_Witness ==
    /\ max_chars = Len(Marker)
    /\ \E i \in 1..Len(calls) :
          /\ calls[i].outcome = "returned"
          /\ Len(calls[i].text) > max_chars
          /\ SliceTo(calls[i].text, max_chars) \o Marker \in StoredMessages
    /\ \E m \in StoredMessages : Len(m) <= max_chars
====
